---------------------------- MODULE Spec2Model ----------------------------
(***************************************************************************)
(* A model of public/scripts/main.js, the page interaction controller of   *)
(* the static site: the bootstrap, init and its setup steps, the mobile    *)
(* menu, in-page navigation, the theme toggle, the header scroll effect,   *)
(* the fade-in watcher, the contact form (validation, submission,          *)
(* notifications) and the loading overlay.                                 *)
(*                                                                         *)
(* The document (which optional elements exist, the nav links' href, the   *)
(* form's inputs) and the browser environment (readyState, matchMedia, the *)
(* persisted theme) are inputs: Init draws them from small sets and no     *)
(* action changes them.  A handler that raises is modelled by the state    *)
(* changes it made before the raise plus its name added to uncaught.       *)
(* The values of the timing marks (elapsed milliseconds) are not tracked,  *)
(* only which marks exist.                                                 *)
(***************************************************************************)
EXTENDS Integers, Sequences, FiniteSets, TLC

-----------------------------------------------------------------------------
(* Bounds of the model *)

\* DOMContentLoaded may be dispatched again (a synthetic event): init calls
MaxDispatch == 2
\* longest field value (in characters) of the validation specification
MaxLen == 5
\* notification banners in the document or with a callback pending at the
\* same time
MaxNotifs == 2
\* submissions whose network call is awaiting its response at the same time
MaxInflight == 2

-----------------------------------------------------------------------------
(* Values *)

\* getAttribute / getItem returning null
NoTheme == "null"
\* a nav link without an href attribute: getAttribute('href') is null
NoHref == <<>>
\* ids of the elements of the document an href can point at
DocIds == {"services"}
\* the href values of the modelled nav links: '#', '#services', '#gone',
\* '/about' and no href at all
Hrefs == {NoHref, <<"#">>, <<"#", "services">>, <<"#", "gone">>, <<"/", "about">>}
\* the nav-link lists of the modelled pages
LinkLists == {<<>>} \cup {<<h>> : h \in Hrefs}
               \cup {<<NoHref, <<"#", "services">> >>, << <<"#", "services">>, NoHref>>}

\* element.offsetTop of the target of '#services', header.offsetHeight
TargetOffsetTop == 91
HeaderOffsetHeight == 81
\* the assumed header height when there is no header
DefaultHeaderHeight == 80
\* the scroll offset above which the header is 'scrolled'
ScrollThreshold == 10
\* window.pageYOffset values a user scroll can produce
ScrollOffsets == {0, 10, 11}

\* the characters of a field value; " " stands for every whitespace character
Chars == {"a", "@", ".", " "}

RequiredMessage == "This field is required"
EmailMessage == "Please enter a valid email address"
FixErrorsMessage == "Please fix the errors below"
SuccessMessage == "Message sent successfully! We'll get back to you soon."
FailureMessage == "Failed to send message. Please try again."
SendingLabel == "Sending..."
\* the submit control's label in the markup
MarkupLabel == "Send Message"

-----------------------------------------------------------------------------
(* Pure functions *)

IsSpace(c) == c = " "

\* String.prototype.trim
RECURSIVE TrimLeft(_)
TrimLeft(s) == IF s # <<>> /\ IsSpace(Head(s)) THEN TrimLeft(Tail(s)) ELSE s

RECURSIVE TrimRight(_)
TrimRight(s) ==
    IF s # <<>> /\ IsSpace(s[Len(s)]) THEN TrimRight(SubSeq(s, 1, Len(s) - 1)) ELSE s

Trim(s) == TrimRight(TrimLeft(s))

\* the character class [^\s@]
NotSpaceNorAt(c) == ~IsSpace(c) /\ c # "@"

\* /^[^\s@]+@[^\s@]+\.[^\s@]+$/ : some split  local '@' domain '.' tld  with
\* the three parts non-empty and made of [^\s@] only
isValidEmail(email) ==
    \E i \in 1..Len(email) : \E j \in 1..Len(email) :
        /\ email[i] = "@"
        /\ email[j] = "."
        /\ 1 < i /\ i + 1 < j /\ j < Len(email)
        /\ \A k \in 1..Len(email) : (k # i /\ k # j) => NotSpaceNorAt(email[k])

\* String.prototype.startsWith('#') on an href that is not null
StartsWithHash(href) == Len(href) > 0 /\ Head(href) = "#"

\* document.querySelector(href) for an href starting with '#': '#' alone is
\* not a valid selector (SyntaxError), '#id' finds the element or null
SelectorThrows(href) == Len(href) < 2
TargetExists(href) == Len(href) >= 2 /\ href[2] \in DocIds


-----------------------------------------------------------------------------
(* The document and the environment: inputs, constant in a behaviour *)

VARIABLES
    dom,            \* which optional elements the document holds
    navLinks,       \* the href of each .nav-link element, in document order
    media,          \* matchMedia support and the two media queries' results
    inputs,         \* the contact form's inputs: required, type, parent container
    persisted,      \* localStorage 'theme' as earlier visits left it
    readyState      \* document.readyState

(* The controller's own state and the part of the document it writes *)

VARIABLES
    booted,         \* the script's top-level code has run
    dispatched,     \* DOMContentLoaded events delivered so far
    isInitialized,  \* the initialization flag
    elements,       \* the element cache: TRUE where a reference was captured
    listeners,      \* the listeners registered by the script
    marks,          \* the names of the timing marks recorded
    uncaught,       \* the handlers that raised an error nothing caught
    menuActive,     \* .nav-menu has class 'active'
    toggleActive,   \* #navToggle has class 'active'
    bodyOverflow,   \* document.body.style.overflow
    scrollY,        \* window.pageYOffset
    ticking,        \* the scroll listener's throttling flag
    frames,         \* updateHeaderOnScroll callbacks requested and not yet run
    headerScrolled, \* .header has class 'scrolled'
    dataTheme,      \* the data-theme attribute of the document root
    storedTheme,    \* localStorage 'theme'
    loading,        \* the loading overlay: class 'hide', style.display
    loadingTimers,  \* pending timers of hideLoadingScreen: 300 ms, 500 ms
    opacity,        \* style.opacity of each fade-in element
    observed,       \* the elements the intersection watcher observes
    value,          \* each form input's value
    border,         \* each form input has the error border colour
    errorEl,        \* each container's .error-message text, or NoError
    btnText,        \* the submit control's label
    btnDisabled,    \* the submit control's disabled property
    inflight,       \* submissions suspended at the relay call, oldest first
    notes,          \* the notification banners the script can still reach
    timers          \* pending callbacks of showNotification, by kind

(* Observation: what happened, for stating the properties *)

VARIABLES
    lastEvent,      \* the user event or network answer handled last: its
                    \* name (for a relay call that settled, how it ended),
                    \* the nav link or form input it was about (0: none),
                    \* whether the menu was active when it arrived
    themeLog        \* <<data-theme, stored theme>> before each of the last two
                    \* theme-toggle clicks, oldest first

envVars == <<dom, navLinks, media, inputs, persisted>>
bootVars == <<readyState, booted, dispatched>>
initVars == <<isInitialized, elements, listeners, marks>>
navVars == <<menuActive, toggleActive, bodyOverflow>>
scrollVars == <<scrollY, ticking, frames, headerScrolled>>
themeVars == <<dataTheme, storedTheme>>
loadingVars == <<loading, loadingTimers>>
fadeVars == <<opacity, observed>>
fieldVars == <<value, border, errorEl>>
submitVars == <<btnText, btnDisabled, inflight>>
noteVars == <<notes, timers>>

vars == <<envVars, bootVars, initVars, uncaught, navVars, scrollVars, themeVars,
          loadingVars, fadeVars, fieldVars, submitVars, noteVars, lastEvent, themeLog>>

\* everything init and the handlers can write: all but the inputs and the
\* browser's own bookkeeping of the load
programVars == <<initVars, uncaught, navVars, scrollVars, themeVars, loadingVars,
                 fadeVars, fieldVars, submitVars, noteVars>>

\* the fade-in elements (.service-card, .work-item, .process-step) of the page
FadeEls == {"card", "step"}
\* the containers (parentNode) of the form's inputs
Containers == {1, 2}
NoError == "none"
\* the values a user types into a field of the form: nothing or a word, and
\* into an email field also an address
FieldValues(type) ==
    {<<>>, <<"a">>} \cup (IF type = "email" THEN {<<"a", "@", "a", ".", "a">>} ELSE {})

ElementNames == {"loading", "header", "navToggle", "navMenu", "contactForm",
                 "themeToggle", "btnSubmit"}

\* the form layouts of the modelled pages: a required text field and a required
\* email field in containers of their own; the same two sharing a container;
\* an optional email field beside a required text field
FormLayouts ==
    { << [required |-> TRUE, type |-> "text", parent |-> 1],
         [required |-> TRUE, type |-> "email", parent |-> 2] >>,
      << [required |-> TRUE, type |-> "text", parent |-> 1],
         [required |-> TRUE, type |-> "email", parent |-> 1] >>,
      << [required |-> FALSE, type |-> "email", parent |-> 1],
         [required |-> TRUE, type |-> "text", parent |-> 2] >> }

InputIds == 1..2

\* matchMedia missing: no query has a result
MediaEnvs ==
    { m \in [matchMedia : BOOLEAN, prefersDark : BOOLEAN, reducedMotion : BOOLEAN] :
        ~m.matchMedia => (~m.prefersDark /\ ~m.reducedMotion) }

\* The state the script finds when its top-level code starts: nothing cached,
\* nothing registered, the menu closed, every field empty (lines 7-8 and the
\* markup).
StartControls ==
    /\ booted = FALSE
    /\ dispatched = 0
    /\ isInitialized = FALSE
    /\ elements = [n \in ElementNames \ {"btnSubmit"} |-> FALSE]
    /\ listeners = [keydown |-> FALSE, domReady |-> FALSE, navToggle |-> FALSE,
                    links |-> {}, scroll |-> 0, theme |-> FALSE, submit |-> FALSE,
                    fields |-> FALSE]
    /\ marks = {}
    /\ uncaught = {}
    /\ menuActive = FALSE
    /\ toggleActive = FALSE
    /\ bodyOverflow = ""
    /\ scrollY = 0
    /\ ticking = FALSE
    /\ frames = 0
    /\ headerScrolled = FALSE
    /\ loading = [hide |-> FALSE, display |-> ""]
    /\ loadingTimers = [t300 |-> 0, t500 |-> 0]
    /\ opacity = [e \in FadeEls |-> ""]
    /\ observed = {}
    /\ border = [i \in InputIds |-> FALSE]
    /\ errorEl = [c \in Containers |-> NoError]
    /\ btnText = MarkupLabel
    /\ btnDisabled = FALSE
    /\ inflight = <<>>
    /\ notes = <<>>
    /\ timers = [frame |-> <<>>, t4000 |-> <<>>, t300 |-> <<>>]
    /\ lastEvent = [name |-> "none", target |-> 0, menuWasActive |-> FALSE,
                    result |-> FALSE]
    /\ themeLog = <<>>

\* the fields are empty in the markup
Start ==
    /\ StartControls
    /\ value = [i \in InputIds |-> <<>>]

\* localStorage holds what an earlier visit's setTheme wrote, or nothing; the
\* markup may carry a data-theme of its own
ThemeStart ==
    /\ persisted \in {NoTheme, "light", "dark"}
    /\ storedTheme = persisted
    /\ dataTheme \in {NoTheme, "light"}

\* result: what the handler returned, where the properties need it
Event(name, target) ==
    [name |-> name, target |-> target, menuWasActive |-> menuActive, result |-> FALSE]

-----------------------------------------------------------------------------
(* Theme *)

\* line 119: matchMedia is tested before it is called
SystemPrefersDark == media.matchMedia /\ media.prefersDark

\* the system preference consulted before the saved theme
InitialThemeSystemFirst(savedTheme, systemPrefersDark) ==
    IF systemPrefersDark THEN "dark"
    ELSE IF savedTheme # NoTheme THEN savedTheme ELSE "light"

\* line 120: savedTheme || (systemPrefersDark ? 'dark' : 'light')
InitialTheme(savedTheme, systemPrefersDark) ==
    IF savedTheme # NoTheme THEN savedTheme
    ELSE IF systemPrefersDark THEN "dark" ELSE "light"

\* a toggle that can only switch to dark
NewThemeStuck(currentTheme) == "dark"

\* line 135: currentTheme === 'dark' ? 'light' : 'dark'
NewTheme(currentTheme) == IF currentTheme = "dark" THEN "light" ELSE "dark"

\* setTheme without the write to localStorage
setThemeNoPersist(theme) ==
    /\ dataTheme' = theme
    /\ UNCHANGED storedTheme

\* lines 126-131
setTheme(theme) ==
    /\ dataTheme' = theme
    /\ storedTheme' = theme

\* lines 133-137
toggleTheme == setTheme(NewTheme(dataTheme))

-----------------------------------------------------------------------------
(* init and its setup steps *)

\* cacheElements: a reference is captured for each element the document holds
cacheElements == [n \in ElementNames \ {"btnSubmit"} |-> dom[n]]

\* setupNavigation raises at the first link whose href is null (null.startsWith)
NullHrefs == {i \in 1..Len(navLinks) : navLinks[i] = NoHref}
FirstNullHref == IF NullHrefs = {} THEN Len(navLinks) + 1
                 ELSE CHOOSE i \in NullHrefs : \A j \in NullHrefs : i <= j
SetupNavigationThrows == NullHrefs # {}
\* the links that get handleSmoothScroll: those visited before a raise whose
\* href starts with '#'
SmoothScrollLinks == {i \in 1..(FirstNullHref - 1) : StartsWithHash(navLinks[i])}

\* setupScrollEffects calls window.matchMedia without testing it
SetupScrollEffectsThrows == ~media.matchMedia

\* how far init gets: the setup steps run in order and the first raise ends init
ReachesThemeSetup == ~SetupNavigationThrows
ReachesFormSetup == ~SetupNavigationThrows /\ ~SetupScrollEffectsThrows

\* lines 23-37: the body of init, started with the listeners ls registered
initBody(ls) ==
    LET els == cacheElements IN
    /\ isInitialized' = TRUE
    /\ elements' = els
    /\ marks' = marks \cup {"init_start"}
                      \cup (IF ReachesFormSetup THEN {"init_complete"} ELSE {})
    /\ uncaught' = uncaught \cup (IF ReachesFormSetup THEN {} ELSE {"init"})
    /\ listeners' =
         [ls EXCEPT
            \* setupNavigation
            !.navToggle = @ \/ (els.navToggle /\ els.navMenu),
            !.links = @ \cup SmoothScrollLinks,
            !.scroll = @ + (IF ~SetupNavigationThrows /\ els.header THEN 1 ELSE 0),
            \* setupThemeToggle
            !.theme = @ \/ (ReachesThemeSetup /\ els.themeToggle),
            \* setupFormHandling
            !.submit = @ \/ (ReachesFormSetup /\ els.contactForm),
            !.fields = @ \/ (ReachesFormSetup /\ els.contactForm)]
    \* setupThemeToggle
    /\ IF ReachesThemeSetup /\ els.themeToggle
         THEN setTheme(InitialTheme(storedTheme, SystemPrefersDark))
         ELSE UNCHANGED themeVars
    \* setupScrollEffects
    /\ IF ReachesFormSetup /\ ~media.reducedMotion
         THEN /\ opacity' = [e \in FadeEls |-> "0"]
              /\ observed' = FadeEls
         ELSE UNCHANGED fadeVars
    \* hideLoadingScreen
    /\ IF ReachesFormSetup /\ els.loading
         THEN loadingTimers' = [loadingTimers EXCEPT !.t300 = @ + 1]
         ELSE UNCHANGED loadingTimers
    /\ UNCHANGED <<loading, navVars, scrollVars, fieldVars, submitVars, noteVars>>

\* init without its guard
initUnguarded(ls) == initBody(ls)

\* lines 21-38
init(ls) ==
    IF isInitialized
      THEN /\ listeners' = ls
           /\ UNCHANGED <<isInitialized, elements, marks, uncaught, themeVars, fadeVars,
                          loading, loadingTimers, navVars, scrollVars, fieldVars,
                          submitVars, noteVars>>
      ELSE initBody(ls)

\* lines 353-365: the script's top-level code registers the keydown listener,
\* then defers init to DOMContentLoaded while the document is loading and
\* calls it at once otherwise
Bootstrap ==
    /\ ~booted
    /\ booted' = TRUE
    /\ IF readyState = "loading"
         THEN /\ listeners' = [listeners EXCEPT !.keydown = TRUE, !.domReady = TRUE]
              /\ UNCHANGED <<isInitialized, elements, marks, uncaught, themeVars,
                             fadeVars, loading, loadingTimers, navVars, scrollVars,
                             fieldVars, submitVars, noteVars>>
         ELSE init([listeners EXCEPT !.keydown = TRUE])
    /\ lastEvent' = Event("script", 0)
    /\ UNCHANGED themeLog
    /\ UNCHANGED <<envVars, readyState, dispatched>>

\* the DOMContentLoaded listener is init; the browser delivers the event when
\* the document has been parsed, and a synthetic event may be dispatched later
DOMContentLoaded ==
    /\ listeners.domReady
    /\ dispatched < MaxDispatch
    /\ dispatched' = dispatched + 1
    /\ readyState' = "interactive"
    /\ init(listeners)
    /\ lastEvent' = Event("DOMContentLoaded", 0)
    /\ UNCHANGED themeLog
    /\ UNCHANGED <<envVars, booted>>

-----------------------------------------------------------------------------
(* Mobile menu and in-page navigation *)

\* the overflow computed from the class as it was before the toggle
OverflowStale(active) == IF active THEN "" ELSE "hidden"

\* line 81: the body's overflow follows the menu's class
OverflowFor(active) == IF active THEN "hidden" ELSE ""

\* lines 77-83, called from handler: elements.navToggle is dereferenced
\* without a test, after the menu's class has been toggled
toggleMobileMenu(handler) ==
    IF elements.navMenu
      THEN /\ menuActive' = ~menuActive
           /\ IF elements.navToggle
                THEN /\ toggleActive' = ~toggleActive
                     /\ bodyOverflow' = OverflowFor(~menuActive)
                     /\ UNCHANGED uncaught
                ELSE /\ UNCHANGED <<toggleActive, bodyOverflow>>
                     /\ uncaught' = uncaught \cup {handler}
      ELSE UNCHANGED <<navVars, uncaught>>

\* a click on the nav toggle control
ToggleClick ==
    /\ listeners.navToggle
    /\ toggleMobileMenu("toggleMobileMenu")
    /\ lastEvent' = Event("toggleClick", 0)
    /\ UNCHANGED themeLog
    /\ UNCHANGED <<envVars, bootVars, initVars, scrollVars, themeVars, loadingVars,
                   fadeVars, fieldVars, submitVars, noteVars>>

\* the test without contains('active')
EscapeAlwaysToggles == elements.navMenu

\* line 355: the keydown listener's test for the Escape key
EscapeCloses == elements.navMenu /\ menuActive

\* lines 353-358: the Escape key
KeydownEscape ==
    /\ listeners.keydown
    /\ IF EscapeCloses
         THEN toggleMobileMenu("keydown")
         ELSE UNCHANGED <<navVars, uncaught>>
    /\ lastEvent' = Event("escape", 0)
    /\ UNCHANGED themeLog
    /\ UNCHANGED <<envVars, bootVars, initVars, scrollVars, themeVars, loadingVars,
                   fadeVars, fieldVars, submitVars, noteVars>>

\* a scroll listener that requests a frame for every event
onScrollUnthrottled ==
    IF listeners.scroll > 0
      THEN /\ frames' = frames + listeners.scroll
           /\ ticking' = TRUE
      ELSE UNCHANGED <<ticking, frames>>

\* lines 65-73: the scroll listener (each registered closure has the flag)
onScroll ==
    IF listeners.scroll > 0 /\ ~ticking
      THEN /\ frames' = frames + listeners.scroll
           /\ ticking' = TRUE
      ELSE UNCHANGED <<ticking, frames>>

\* line 91
HeaderHeight == IF elements.header THEN HeaderOffsetHeight ELSE DefaultHeaderHeight

\* the test with contains('active') negated
ClosesMenuInverted == elements.navMenu /\ ~menuActive

\* line 100: the menu is closed only when it is open
ClosesMenu == elements.navMenu /\ menuActive

\* lines 85-104: a click on nav link i, which has the listener.  The animated
\* scroll moves the page to the target position; the scroll event it causes is
\* delivered in the same step.
handleSmoothScroll(i) ==
    LET targetId == navLinks[i] IN
    IF SelectorThrows(targetId)
      THEN /\ uncaught' = uncaught \cup {"handleSmoothScroll"}
           /\ UNCHANGED <<navVars, scrollVars>>
      ELSE IF TargetExists(targetId)
             THEN /\ scrollY' = TargetOffsetTop - HeaderHeight
                  /\ IF scrollY' # scrollY THEN onScroll ELSE UNCHANGED <<ticking, frames>>
                  /\ UNCHANGED headerScrolled
                  /\ IF ClosesMenu
                       THEN toggleMobileMenu("handleSmoothScroll")
                       ELSE UNCHANGED <<navVars, uncaught>>
             ELSE UNCHANGED <<navVars, scrollVars, uncaught>>

NavLinkClick ==
    \E i \in listeners.links :
        /\ handleSmoothScroll(i)
        /\ lastEvent' = Event("navLinkClick", i)
        /\ UNCHANGED themeLog
        /\ UNCHANGED <<envVars, bootVars, initVars, themeVars, loadingVars,
                       fadeVars, fieldVars, submitVars, noteVars>>

-----------------------------------------------------------------------------
(* Header scroll effect *)

\* the user scrolls to another offset: the scroll event is delivered
Scroll ==
    /\ \E y \in ScrollOffsets \ {scrollY} : scrollY' = y
    /\ onScroll
    /\ UNCHANGED headerScrolled
    \* result: an update was pending when the event arrived
    /\ lastEvent' = [Event("scroll", 0) EXCEPT !.result = frames > 0]
    /\ UNCHANGED themeLog
    /\ UNCHANGED <<envVars, bootVars, initVars, uncaught, navVars, themeVars,
                   loadingVars, fadeVars, fieldVars, submitVars, noteVars>>

\* line 108
IsScrolled(offset) == offset > ScrollThreshold

\* lines 106-111, run by the animation frame that was requested
updateHeaderOnScroll ==
    /\ frames > 0
    /\ frames' = frames - 1
    /\ IF elements.header
         THEN headerScrolled' = IsScrolled(scrollY)
         ELSE UNCHANGED headerScrolled
    /\ UNCHANGED <<scrollY, ticking>>
    /\ lastEvent' = Event("frame", 0)
    /\ UNCHANGED themeLog
    /\ UNCHANGED <<envVars, bootVars, initVars, uncaught, navVars, themeVars,
                   loadingVars, fadeVars, fieldVars, submitVars, noteVars>>

-----------------------------------------------------------------------------
(* Theme toggle, fade-in watcher, loading overlay *)

LastTwo(log) == IF Len(log) > 2 THEN Tail(log) ELSE log

\* a click on the theme toggle control
ThemeClick ==
    /\ listeners.theme
    /\ toggleTheme
    /\ themeLog' = LastTwo(Append(themeLog, <<dataTheme, storedTheme>>))
    /\ lastEvent' = Event("themeClick", 0)
    /\ UNCHANGED <<envVars, bootVars, initVars, uncaught, navVars, scrollVars,
                   loadingVars, fadeVars, fieldVars, submitVars, noteVars>>

\* a callback that keeps watching the element it revealed
ObservedAfterKept(obs, e) == obs

\* line 157: observer.unobserve(entry.target)
ObservedAfter(obs, e) == obs \ {e}

\* lines 152-160: the watcher's callback with one entry, for an observed element
Intersection ==
    \E e \in observed : \E isIntersecting \in BOOLEAN :
        /\ IF isIntersecting
             THEN /\ opacity' = [opacity EXCEPT ![e] = "1"]
                  /\ observed' = ObservedAfter(observed, e)
             ELSE UNCHANGED fadeVars
        /\ lastEvent' = Event("intersection", 0)
        /\ UNCHANGED themeLog
        /\ UNCHANGED <<envVars, bootVars, initVars, uncaught, navVars, scrollVars,
                       themeVars, loadingVars, fieldVars, submitVars, noteVars>>

\* lines 330-335: the 300 ms timer of hideLoadingScreen
LoadingHide ==
    /\ loadingTimers.t300 > 0
    /\ loading' = [loading EXCEPT !.hide = TRUE]
    /\ loadingTimers' = [t300 |-> loadingTimers.t300 - 1, t500 |-> loadingTimers.t500 + 1]
    /\ lastEvent' = Event("timer300", 0)
    /\ UNCHANGED themeLog
    /\ UNCHANGED <<envVars, bootVars, initVars, uncaught, navVars, scrollVars,
                   themeVars, fadeVars, fieldVars, submitVars, noteVars>>

\* lines 332-334: the 500 ms timer
LoadingRemove ==
    /\ loadingTimers.t500 > 0
    /\ loading' = [loading EXCEPT !.display = "none"]
    /\ loadingTimers' = [loadingTimers EXCEPT !.t500 = @ - 1]
    /\ lastEvent' = Event("timer500", 0)
    /\ UNCHANGED themeLog
    /\ UNCHANGED <<envVars, bootVars, initVars, uncaught, navVars, scrollVars,
                   themeVars, fadeVars, fieldVars, submitVars, noteVars>>

-----------------------------------------------------------------------------
(* Notifications *)

\* A banner is a record: its slot (id), type, text, whether it is in the
\* document and whether its transform is translateX(0).  notes lists, in
\* document order, the banners that are in the document or still have a
\* callback pending; a banner that is neither can no longer be reached by the
\* script and is dropped.  timers holds the pending callbacks, the banner's
\* slot for each: callbacks of one kind run in the order they were requested.

Pending(q) == {q.frame[k] : k \in 1..Len(q.frame)}
                \cup {q.t4000[k] : k \in 1..Len(q.t4000)}
                \cup {q.t300[k] : k \in 1..Len(q.t300)}

\* the banners of ns the script can still reach
Reachable(ns, q) ==
    LET Live(n) == n.inDoc \/ n.id \in Pending(q) IN SelectSeq(ns, Live)

\* line 290: document.querySelector('.notification'), the first banner in the
\* document (0: none)
InDocument(ns) == {k \in 1..Len(ns) : ns[k].inDoc}
FirstInDocument(ns) ==
    IF InDocument(ns) = {} THEN 0
    ELSE CHOOSE k \in InDocument(ns) : \A j \in InDocument(ns) : k <= j

\* showNotification leaving the existing banner in the document
RemoveExistingNone(ns) == ns

\* lines 290-291: the existing banner is removed
RemoveExisting(ns) ==
    IF FirstInDocument(ns) = 0 THEN ns
    ELSE [ns EXCEPT ![FirstInDocument(ns)].inDoc = FALSE]

\* the position in ns of the banner in slot id
At(ns, id) == CHOOSE k \in 1..Len(ns) : ns[k].id = id

\* a timer callback that looks the banner up in the document
TimerTargetInDocument(ns, id) ==
    IF FirstInDocument(ns) = 0 THEN At(ns, id) ELSE FirstInDocument(ns)

\* lines 316-324: each callback closes over the banner its call created
TimerTarget(ns, id) == At(ns, id)

FreeSlots(ns) == (1..MaxNotifs) \ {ns[k].id : k \in 1..Len(ns)}

\* a further banner fits the model's bound
CanShow == FreeSlots(Reachable(RemoveExisting(notes), timers)) # {}

\* lines 288-325: the new banner starts off screen, is appended to the body,
\* and gets an animation frame (animate in) and a 4000 ms timer (animate out)
showNotification(message, type) ==
    LET rest == Reachable(RemoveExisting(notes), timers)
        id == CHOOSE f \in FreeSlots(rest) : \A g \in FreeSlots(rest) : f <= g
    IN  /\ notes' = Append(rest, [id |-> id, type |-> type, message |-> message,
                                  inDoc |-> TRUE, onScreen |-> FALSE])
        /\ timers' = [timers EXCEPT !.frame = Append(@, id), !.t4000 = Append(@, id)]

\* lines 316-318: the animation frame
NoteAnimateIn ==
    /\ timers.frame # <<>>
    /\ LET id == Head(timers.frame)
           q == [timers EXCEPT !.frame = Tail(@)]
       IN  /\ timers' = q
           /\ notes' = Reachable([notes EXCEPT ![TimerTarget(notes, id)].onScreen = TRUE], q)
    /\ UNCHANGED <<envVars, bootVars, initVars, uncaught, navVars, scrollVars,
                   themeVars, loadingVars, fadeVars, fieldVars, submitVars,
                   lastEvent, themeLog>>

\* lines 321-324: the 4000 ms timer
NoteAnimateOut ==
    /\ timers.t4000 # <<>>
    /\ LET id == Head(timers.t4000) IN
         /\ timers' = [timers EXCEPT !.t4000 = Tail(@), !.t300 = Append(@, id)]
         /\ notes' = [notes EXCEPT ![TimerTarget(notes, id)].onScreen = FALSE]
    /\ UNCHANGED <<envVars, bootVars, initVars, uncaught, navVars, scrollVars,
                   themeVars, loadingVars, fadeVars, fieldVars, submitVars,
                   lastEvent, themeLog>>

\* line 323: the 300 ms timer
NoteRemove ==
    /\ timers.t300 # <<>>
    /\ LET id == Head(timers.t300)
           q == [timers EXCEPT !.t300 = Tail(@)]
       IN  /\ timers' = q
           /\ notes' = Reachable([notes EXCEPT ![TimerTarget(notes, id)].inDoc = FALSE], q)
    /\ UNCHANGED <<envVars, bootVars, initVars, uncaught, navVars, scrollVars,
                   themeVars, loadingVars, fadeVars, fieldVars, submitVars,
                   lastEvent, themeLog>>

-----------------------------------------------------------------------------
(* Form validation *)

\* validateInput testing the value as typed, not trimmed
validateUntrimmed(input, raw) ==
    IF input.required /\ raw = <<>>
      THEN [isValid |-> FALSE, errorMessage |-> RequiredMessage]
      ELSE IF input.type = "email" /\ raw # <<>> /\ ~isValidEmail(raw)
             THEN [isValid |-> FALSE, errorMessage |-> EmailMessage]
             ELSE [isValid |-> TRUE, errorMessage |-> ""]

\* lines 188-201: a required field's trimmed value must not be empty, and the
\* required test comes before the email test
validate(input, raw) ==
    LET v == Trim(raw) IN
    IF input.required /\ v = <<>>
      THEN [isValid |-> FALSE, errorMessage |-> RequiredMessage]
      ELSE IF input.type = "email" /\ v # <<>> /\ ~isValidEmail(v)
             THEN [isValid |-> FALSE, errorMessage |-> EmailMessage]
             ELSE [isValid |-> TRUE, errorMessage |-> ""]

\* lines 227-235, on the display d = [border, errorEl]: the error element
\* looked up is the container's
clearValidationError(d, i) ==
    [border |-> [d.border EXCEPT ![i] = FALSE],
     errorEl |-> [d.errorEl EXCEPT ![inputs[i].parent] = NoError]]

\* lines 214-225: the container's error element is reused when there is one
showValidationError(d, i, message) ==
    [border |-> [d.border EXCEPT ![i] = TRUE],
     errorEl |-> [d.errorEl EXCEPT ![inputs[i].parent] = message]]

\* lines 186-208: the display after validateInput on input i holding raw
validateInput(d, i, raw) ==
    LET r == validate(inputs[i], raw)
        cleared == clearValidationError(d, i)
    IN  IF r.isValid THEN cleared ELSE showValidationError(cleared, i, r.errorMessage)

Display == [border |-> border, errorEl |-> errorEl]

\* the input loses focus
BlurEvent ==
    \E i \in InputIds :
        /\ listeners.fields
        /\ LET d == validateInput(Display, i, value[i]) IN
             /\ border' = d.border
             /\ errorEl' = d.errorEl
        /\ UNCHANGED value
        /\ lastEvent' = [Event("blur", i) EXCEPT
                            !.result = validate(inputs[i], value[i]).isValid]
        /\ UNCHANGED themeLog
        /\ UNCHANGED <<envVars, bootVars, initVars, uncaught, navVars, scrollVars,
                       themeVars, loadingVars, fadeVars, submitVars, noteVars>>

\* the user edits a field: the input listener is clearValidationError
InputEvent ==
    \E i \in InputIds : \E v \in FieldValues(inputs[i].type) \ {value[i]} :
        /\ dom.contactForm
        /\ value' = [value EXCEPT ![i] = v]
        /\ IF listeners.fields
             THEN LET d == clearValidationError(Display, i) IN
                    /\ border' = d.border
                    /\ errorEl' = d.errorEl
             ELSE UNCHANGED <<border, errorEl>>
        /\ lastEvent' = Event("input", 0)
        /\ UNCHANGED themeLog
        /\ UNCHANGED <<envVars, bootVars, initVars, uncaught, navVars, scrollVars,
                       themeVars, loadingVars, fadeVars, submitVars, noteVars>>

-----------------------------------------------------------------------------
(* Form submission *)

\* line 241: querySelectorAll('[required]'), in document order
RequiredInputs == {i \in InputIds : inputs[i].required}

\* lines 245-249: validateInput on each required input in turn
RECURSIVE ValidateFrom(_, _)
ValidateFrom(d, i) ==
    IF i > Len(inputs) THEN d
    ELSE IF i \in RequiredInputs
           THEN ValidateFrom(validateInput(d, i, value[i]), i + 1)
           ELSE ValidateFrom(d, i + 1)

\* isFormValid overwritten by each input's result: the last one decides
IsFormValidLastOnly ==
    \A i \in RequiredInputs :
        (\A j \in RequiredInputs : j <= i) => validate(inputs[i], value[i]).isValid

\* lines 242-249: the form is valid when every required input is
IsFormValid == \A i \in RequiredInputs : validate(inputs[i], value[i]).isValid

\* a finally block that restores the label and leaves the control disabled
RestoreButtonStaysDisabled(originalText) ==
    /\ btnText' = originalText
    /\ UNCHANGED btnDisabled

\* lines 282-285
RestoreButton(originalText) ==
    /\ btnText' = originalText
    /\ btnDisabled' = FALSE

\* lines 237-265: the submit event, up to the await of fetch.  Without a
\* .btn-submit element line 258 raises, before the try.
handleFormSubmit ==
    /\ listeners.submit
    /\ LET d == ValidateFrom(Display, 1) IN
         /\ border' = d.border
         /\ errorEl' = d.errorEl
    /\ UNCHANGED value
    /\ IF ~IsFormValid
         THEN /\ CanShow
              /\ showNotification(FixErrorsMessage, "error")
              /\ UNCHANGED <<submitVars, uncaught>>
         ELSE IF ~dom.btnSubmit
                THEN /\ uncaught' = uncaught \cup {"handleFormSubmit"}
                     /\ UNCHANGED <<submitVars, noteVars>>
                ELSE /\ Len(inflight) < MaxInflight
                     /\ btnText' = SendingLabel
                     /\ btnDisabled' = TRUE
                     /\ inflight' = Append(inflight,
                                      [originalText |-> btnText])
                     /\ UNCHANGED <<noteVars, uncaught>>
    /\ lastEvent' = Event("submit", 0)
    /\ UNCHANGED themeLog
    /\ UNCHANGED <<envVars, bootVars, initVars, navVars, scrollVars, themeVars,
                   loadingVars, fadeVars>>

Without(seq, k) == SubSeq(seq, 1, k - 1) \o SubSeq(seq, k + 1, Len(seq))

\* lines 279-285: the catch block and the finally block
SubmissionFails(k) ==
    /\ CanShow
    /\ showNotification(FailureMessage, "error")
    /\ RestoreButton(inflight[k].originalText)
    /\ inflight' = Without(inflight, k)
    /\ UNCHANGED value

\* the test without data.success
RelaySucceededOkOnly(outcome) == outcome \in {"success", "noSuccess"}

\* line 272: response.ok && data.success
RelaySucceeded(outcome) == outcome = "success"

\* the ways the relay call of a suspended submission can end: fetch rejects,
\* the response is not ok, its body cannot be parsed, the parsed data has no
\* success flag, or the response is ok and the flag is set
Outcomes == {"networkError", "notOk", "parseError", "noSuccess", "success"}

\* lines 265-285: the awaited calls of the k-th suspended submission settle.
\* Between the two awaits (fetch, response.json) the handler writes nothing,
\* so the two resumptions are taken as one step.
RelaySettles ==
    \E k \in 1..Len(inflight) : \E outcome \in Outcomes :
        /\ IF RelaySucceeded(outcome)
             THEN /\ CanShow
                  /\ showNotification(SuccessMessage, "success")
                  \* contactForm.reset()
                  /\ value' = [i \in InputIds |-> <<>>]
                  /\ RestoreButton(inflight[k].originalText)
                  /\ inflight' = Without(inflight, k)
             ELSE SubmissionFails(k)
        /\ UNCHANGED <<border, errorEl>>
        /\ lastEvent' = [Event(outcome, 0) EXCEPT !.result = RelaySucceeded(outcome)]
        /\ UNCHANGED themeLog
        /\ UNCHANGED <<envVars, bootVars, initVars, uncaught, navVars, scrollVars,
                       themeVars, loadingVars, fadeVars>>

-----------------------------------------------------------------------------
(* Specifications *)

\* the pages: every combination of the optional elements (a submit control
\* only inside a form)
Pages == {d \in [ElementNames -> BOOLEAN] : d.btnSubmit => d.contactForm}

\* a page with every optional element
FullPage == [n \in ElementNames |-> TRUE]

FirstLayout == << [required |-> TRUE, type |-> "text", parent |-> 1],
                  [required |-> TRUE, type |-> "email", parent |-> 2] >>

\* Page load, mobile menu, in-page navigation, Escape key and theme toggle, on
\* every page, link list and environment
Init ==
    /\ Start
    /\ ThemeStart
    /\ dom \in Pages
    /\ navLinks \in LinkLists
    /\ media \in MediaEnvs
    /\ inputs = FirstLayout
    /\ readyState \in {"loading", "interactive"}

Next ==
    \/ Bootstrap
    \/ DOMContentLoaded
    \/ ToggleClick
    \/ KeydownEscape
    \/ NavLinkClick
    \/ ThemeClick

Spec == Init /\ [][Next]_vars

\* The contact form on a page with every other optional element: edits,
\* submission, the relay's answers, the notification banner and its timers
FormPages == {d \in Pages : \A n \in ElementNames \ {"btnSubmit"} : d[n]}

InitForm ==
    /\ Start
    /\ persisted = NoTheme
    /\ storedTheme = NoTheme
    /\ dataTheme = NoTheme
    /\ dom \in FormPages
    /\ navLinks = << <<"#", "services">> >>
    /\ media = [matchMedia |-> TRUE, prefersDark |-> FALSE, reducedMotion |-> FALSE]
    /\ inputs = FirstLayout
    /\ readyState = "interactive"

NextForm ==
    \/ Bootstrap
    \/ InputEvent
    \/ handleFormSubmit
    \/ RelaySettles
    \/ NoteAnimateIn
    \/ NoteAnimateOut
    \/ NoteRemove

SpecForm == InitForm /\ [][NextForm]_vars

\* the same, with every pending timer and animation frame eventually run
SpecFormLive ==
    /\ InitForm
    /\ [][NextForm]_vars
    /\ WF_vars(NoteAnimateIn)
    /\ WF_vars(NoteAnimateOut)
    /\ WF_vars(NoteRemove)

\* Page load with the scroll listener, the animation frames, the fade-in
\* watcher and the loading overlay's timers, on every page; no link, a link to
\* an element of the page, or a link without href
ScrollLinkLists == {<<>>, << <<"#", "services">> >>, <<NoHref>>}

InitPage ==
    /\ Start
    /\ persisted = NoTheme
    /\ storedTheme = NoTheme
    /\ dataTheme = NoTheme
    /\ dom \in Pages
    /\ navLinks \in ScrollLinkLists
    /\ media \in MediaEnvs
    /\ inputs = FirstLayout
    /\ readyState \in {"loading", "interactive"}

NextPage ==
    \/ Bootstrap
    \/ DOMContentLoaded
    \/ Scroll
    \/ updateHeaderOnScroll
    \/ Intersection
    \/ LoadingHide
    \/ LoadingRemove

SpecPage == InitPage /\ [][NextPage]_vars

\* the same, where the script runs, the browser delivers DOMContentLoaded, and
\* every pending timer and requested frame is eventually run
SpecPageLive ==
    /\ InitPage
    /\ [][NextPage]_vars
    /\ WF_vars(Bootstrap)
    /\ WF_vars(DOMContentLoaded)
    /\ WF_vars(updateHeaderOnScroll)
    /\ WF_vars(LoadingHide)
    /\ WF_vars(LoadingRemove)

\* The form's fields on a page with every optional element, for each layout:
\* blur, edits and submission, with the relay's answers and the banner's timers
InitFields ==
    /\ Start
    /\ persisted = NoTheme
    /\ storedTheme = NoTheme
    /\ dataTheme = NoTheme
    /\ dom = FullPage
    /\ navLinks = << <<"#", "services">> >>
    /\ media = [matchMedia |-> TRUE, prefersDark |-> FALSE, reducedMotion |-> FALSE]
    /\ inputs \in FormLayouts
    /\ readyState = "interactive"

NextFields ==
    \/ Bootstrap
    \/ BlurEvent
    \/ InputEvent
    \/ handleFormSubmit
    \/ RelaySettles
    \/ NoteAnimateIn
    \/ NoteAnimateOut
    \/ NoteRemove

SpecFields == InitFields /\ [][NextFields]_vars

\* every string of at most n characters
Strings(n) == UNION {[1..k -> Chars] : k \in 0..n}

\* the first input of the form: required or not, text or email; the second
\* input is a required text field, in the same container or in one of its own
ValidateLayouts ==
    { << [required |-> r, type |-> t, parent |-> 1],
         [required |-> TRUE, type |-> "text", parent |-> c] >> :
        r \in BOOLEAN, t \in {"text", "email"}, c \in Containers }

\* validateInput on every field value: the page loads with any string already
\* in the first field, and the fields lose focus in any order
InitValidate ==
    /\ StartControls
    /\ \E v \in Strings(MaxLen) : value = [i \in InputIds |-> IF i = 1 THEN v ELSE <<>>]
    /\ persisted = NoTheme
    /\ storedTheme = NoTheme
    /\ dataTheme = NoTheme
    /\ dom = FullPage
    /\ navLinks = << <<"#", "services">> >>
    /\ media = [matchMedia |-> TRUE, prefersDark |-> FALSE, reducedMotion |-> FALSE]
    /\ inputs \in ValidateLayouts
    /\ readyState = "interactive"

NextValidate ==
    \/ Bootstrap
    \/ BlurEvent

SpecValidate == InitValidate /\ [][NextValidate]_vars

-----------------------------------------------------------------------------
(* Properties: page load, menu, navigation *)

\* C1: the body of init runs once per page load.  The first delivery of
\* DOMContentLoaded, or the script's own call when the document is already
\* parsed, sets the flag; the flag is never cleared; the element cache and the
\* timing marks are written only while the flag is clear; and a call of init
\* with the flag set registers no listener, starts no timer and changes none
\* of the state the controller writes.
C1_InitRunsOnce ==
    [][ /\ (isInitialized => isInitialized')
        /\ ((lastEvent'.name = "script" /\ ~booted /\ readyState # "loading")
               => isInitialized')
        /\ ((lastEvent'.name = "DOMContentLoaded" /\ dispatched' # dispatched)
               => isInitialized')
        /\ ((elements' # elements \/ marks' # marks) => ~isInitialized)
        /\ ((isInitialized /\ dispatched' # dispatched) => UNCHANGED programVars) ]_vars

\* C1 witness: init was called a second time on a page where its body had
\* registered the scroll listener and started the overlay's timer
C1_SecondCall ==
    /\ isInitialized
    /\ dispatched = 2
    /\ listeners.scroll = 1
    /\ loadingTimers.t300 = 1

\* C2: from a closed menu, in every state reached by toggle clicks, Escape
\* presses and nav-link clicks the menu is active iff the toggle control is
\* active iff the body's overflow is 'hidden'
C2_MenuLockStep ==
    /\ menuActive <=> toggleActive
    /\ menuActive <=> (bodyOverflow = "hidden")

\* C2 witness: a click on the toggle control opened the menu
C2_Opened == lastEvent.name = "toggleClick" /\ menuActive /\ bodyOverflow = "hidden"

\* C3: Escape only closes.  After an Escape press the menu is inactive and the
\* body scroll unlocked; a press that finds the menu inactive (also before
\* init has captured the elements) changes nothing.
C3_EscapeOnlyCloses ==
    [][ lastEvent'.name = "escape" =>
          /\ ~menuActive' /\ ~toggleActive' /\ bodyOverflow' = ""
          /\ (~menuActive => UNCHANGED programVars) ]_vars

\* C3 witness: Escape arrived while the menu was active and closed it
C3_EscapeClosed ==
    /\ lastEvent.name = "escape"
    /\ lastEvent.menuWasActive
    /\ ~menuActive
    /\ bodyOverflow = ""

\* the href of the nav link the last event was about
LastHref == navLinks[lastEvent.target]

MenuClosed == ~menuActive /\ ~toggleActive /\ bodyOverflow = ""

\* C4 as claimed: after a click on a nav link with an in-page href that found
\* the menu open, the menu is closed
C4_EveryAnchorClickCloses ==
    (lastEvent.name = "navLinkClick" /\ lastEvent.menuWasActive
        /\ StartsWithHash(LastHref)) => MenuClosed

\* C4 amended: after a click on a nav link whose in-page href names an element
\* of the document, which found the menu open, the menu is closed
C4_ResolvedAnchorClickCloses ==
    (lastEvent.name = "navLinkClick" /\ lastEvent.menuWasActive
        /\ StartsWithHash(LastHref) /\ Len(LastHref) >= 2 /\ LastHref[2] \in DocIds)
      => MenuClosed

\* C4 witness: such a click happened with the menu open
C4_ClickedWhileOpen ==
    /\ lastEvent.name = "navLinkClick"
    /\ lastEvent.menuWasActive
    /\ LastHref = <<"#", "services">>
    /\ MenuClosed

-----------------------------------------------------------------------------
(* Properties: theme *)

TwoThemes == {"light", "dark"}

C6_ToggleTwiceRestores ==
    Len(themeLog) = 2 => <<dataTheme, storedTheme>> = themeLog[1]

\* C6 witness: two clicks, starting from dark and ending there
C6_ToggledTwice ==
    /\ Len(themeLog) = 2
    /\ themeLog[1] = <<"dark", "dark">>
    /\ themeLog[2] = <<"light", "light">>
    /\ dataTheme = "dark"

\* C7: the theme init applies is the persisted value when there is one, else
\* dark when the system prefers dark, else light (checked before any click)
C7_InitialThemeOrder ==
    (listeners.theme /\ themeLog = <<>>) =>
        dataTheme = (IF persisted # NoTheme THEN persisted
                     ELSE IF media.prefersDark THEN "dark" ELSE "light")

\* C7 witness: nothing persisted, the system prefers dark, init applied dark
\* over the markup's light
C7_SystemDarkApplied ==
    /\ listeners.theme
    /\ themeLog = <<>>
    /\ persisted = NoTheme
    /\ media.prefersDark
    /\ dataTheme = "dark"

\* C8 as claimed: while no theme-toggle click has happened the stored theme is
\* what earlier visits left, absent included
C8_StoredOnlyByToggle == themeLog = <<>> => storedTheme = persisted

-----------------------------------------------------------------------------
(* Properties: form validation and the aborted submission *)

\* the value is empty once surrounding whitespace is removed
Blank(s) == \A k \in 1..Len(s) : s[k] = " "

\* the value without its surrounding whitespace
Core(s) ==
    LET ks == {k \in 1..Len(s) : s[k] # " "} IN
    IF ks = {} THEN <<>>
    ELSE SubSeq(s, CHOOSE k \in ks : \A j \in ks : k <= j,
                   CHOOSE k \in ks : \A j \in ks : j <= k)

\* local@domain.tld without whitespace: one '@', not in first place, and after
\* it a '.' that is neither next to the '@' nor the last character
EmailShape(s) ==
    /\ Cardinality({k \in 1..Len(s) : s[k] = "@"}) = 1
    /\ \A k \in 1..Len(s) : s[k] # " "
    /\ LET a == CHOOSE k \in 1..Len(s) : s[k] = "@" IN
         /\ a > 1
         /\ \E j \in (a + 2)..(Len(s) - 1) : s[j] = "."

\* C9: after validateInput on an input (a blur), for every value: a required
\* input whose trimmed value is empty has the 'required' error and the result
\* is false; otherwise an email input whose trimmed value is not empty and
\* has not the shape local@domain.tld has the 'valid email' error and the
\* result is false; otherwise the result is true and the input shows no error
C9_ValidateInput ==
    lastEvent.name = "blur" =>
        LET i == lastEvent.target
            c == inputs[i].parent
        IN  IF inputs[i].required /\ Blank(value[i])
              THEN ~lastEvent.result /\ border[i] /\ errorEl[c] = RequiredMessage
              ELSE IF inputs[i].type = "email" /\ ~Blank(value[i])
                        /\ ~EmailShape(Core(value[i]))
                     THEN ~lastEvent.result /\ border[i] /\ errorEl[c] = EmailMessage
                     ELSE lastEvent.result /\ ~border[i] /\ errorEl[c] = NoError

\* C9 witness: a required email input holding ' a@a' lost focus and shows the
\* email error, not the required one
C9_MalformedEmailReported ==
    /\ lastEvent.name = "blur"
    /\ lastEvent.target = 1
    /\ inputs[1].required
    /\ inputs[1].type = "email"
    /\ value[1] = <<" ", "a", "@", "a">>
    /\ ~lastEvent.result
    /\ border[1]
    /\ errorEl[1] = EmailMessage

\* some required input of the form fails validation
SomeRequiredFails ==
    \E i \in InputIds :
        /\ inputs[i].required
        /\ \/ Blank(value[i])
           \/ inputs[i].type = "email" /\ ~EmailShape(Core(value[i]))

\* C10: a submit event that finds a required input failing validation sends
\* nothing (no submission is suspended at the relay call), leaves the submit
\* control's label and disabled state and the field values as they were, and
\* shows one new banner, the 'fix the errors' error, the only one in the
\* document
C10_InvalidSubmitAborts ==
    [][ (handleFormSubmit /\ SomeRequiredFails) =>
          /\ UNCHANGED <<inflight, btnText, btnDisabled, value>>
          /\ Len(timers'.t4000) = Len(timers.t4000) + 1
          /\ InDocument(notes') = {Len(notes')}
          /\ notes'[Len(notes')].type = "error"
          /\ notes'[Len(notes')].message = FixErrorsMessage ]_vars

\* C10 witness: a submission is awaiting the relay, the submit control shows
\* 'Sending...', and an aborted submit has replaced an earlier banner, whose
\* timers are still pending, by the 'fix the errors' banner
C10_AbortedWhileSending ==
    /\ lastEvent.name = "submit"
    /\ SomeRequiredFails
    /\ inflight # <<>>
    /\ btnText = SendingLabel
    /\ btnDisabled
    /\ Len(notes) = 2
    /\ ~notes[1].inDoc
    /\ notes[2].inDoc
    /\ notes[2].message = FixErrorsMessage

-----------------------------------------------------------------------------
(* Properties: the outcome of a submission *)

\* the only banner in the document is the newest one, of this type and text
OnlyBanner(ns, type, message) ==
    /\ InDocument(ns) = {Len(ns)}
    /\ ns[Len(ns)].type = type
    /\ ns[Len(ns)].message = message

C12_FailedSubmission ==
    [][ (RelaySettles /\ lastEvent'.name \in Outcomes \ {"success"}) =>
          /\ value' = value
          /\ OnlyBanner(notes', "error", FailureMessage)
          /\ uncaught' = uncaught ]_vars

\* C12 witness: the response body could not be parsed: the address typed is
\* still in the email field and the failure banner is shown
C12_FailedKeepsFields ==
    /\ lastEvent.name = "parseError"
    /\ value[2] = <<"a", "@", "a", ".", "a">>
    /\ OnlyBanner(notes, "error", FailureMessage)
    /\ uncaught = {}

-----------------------------------------------------------------------------
(* Properties: submit control, notification banners *)

\* C13: whenever no submission is awaiting the relay, the submit control is
\* enabled and has the label of the markup
C13_ControlRestored ==
    inflight = <<>> => (~btnDisabled /\ btnText = MarkupLabel)

\* C14: the document holds at most one notification banner, in every state
C14_AtMostOneBanner == Cardinality(InDocument(notes)) <= 1

\* C14 witness: a banner is in the document while the 300 ms timer of the
\* banner it replaced is still pending
C14_ReplacedWhilePending ==
    /\ Len(notes) = 2
    /\ ~notes[1].inDoc
    /\ notes[2].inDoc
    /\ timers.t300 = <<notes[1].id>>

\* the slots of the banners in the document
InDocIds(ns) == {ns[k].id : k \in InDocument(ns)}
\* the slots of the banners whose transform is translateX(0)
OnScreenIds(ns) == {ns[k].id : k \in {j \in 1..Len(ns) : ns[j].onScreen}}
\* the banners whose transform the step sets back to translateX(100%)
ExitStarts ==
    {id \in OnScreenIds(notes) :
        \E k \in 1..Len(notes') : notes'[k].id = id /\ ~notes'[k].onScreen}
\* the callback of this kind that runs in the step is the one of banner id
OwnTimerFires(kind, id) ==
    /\ timers[kind] # <<>>
    /\ Head(timers[kind]) = id
    /\ Len(timers'[kind]) = Len(timers[kind]) - 1

\* every banner in the document is eventually out of it
C15_EventuallyRemoved ==
    \A id \in 1..MaxNotifs : (id \in InDocIds(notes)) ~> (id \notin InDocIds(notes))

\* a banner's exit starts only in the step of its own 4000 ms timer, and its
\* 300 ms timer exists only once its 4000 ms timer has run
C15_ExitByOwnTimer ==
    [][ /\ \A id \in ExitStarts : OwnTimerFires("t4000", id)
        /\ \A k \in 1..Len(timers'.t300) :
              \A j \in 1..Len(timers'.t4000) : timers'.t300[k] # timers'.t4000[j] ]_vars

\* C15 as stated: every banner shown is eventually removed; its exit starts
\* only with its own 4000 ms timer; it leaves the document only in the step
\* of its own 300 ms timer
C15_RemovedOnlyByOwnTimer ==
    /\ C15_EventuallyRemoved
    /\ C15_ExitByOwnTimer
    /\ [][ \A id \in InDocIds(notes) \ InDocIds(notes') : OwnTimerFires("t300", id) ]_vars

\* C15: every banner shown is eventually removed; its exit starts only with
\* its own 4000 ms timer; it leaves the document only in the step of its own
\* 300 ms timer or in a step that puts a new banner in its place
C15_RemovedByOwnTimerOrReplaced ==
    /\ C15_EventuallyRemoved
    /\ C15_ExitByOwnTimer
    /\ [][ \A id \in InDocIds(notes) \ InDocIds(notes') :
              \/ OwnTimerFires("t300", id)
              \/ InDocIds(notes') \ InDocIds(notes) # {} ]_vars

\* C15 witness: the 300 ms timer of a replaced banner has run and the banner
\* that replaced it is still in the document, on screen, awaiting its own
\* 4000 ms timer
C15_NewerSurvivesOldTimers ==
    /\ Len(notes) = 1
    /\ notes[1].inDoc
    /\ notes[1].onScreen
    /\ notes[1].id = 2
    /\ timers = [frame |-> <<>>, t4000 |-> <<2>>, t300 |-> <<>>]

-----------------------------------------------------------------------------
(* Properties: loading overlay, missing elements, fade-in, header on scroll *)

\* C16: on a page with a loading overlay the overlay eventually gets the
\* 'hide' class and eventually, with that class already set, display none,
\* each through one timer only, whatever else the page holds
C16_OverlayAlwaysDismissed ==
    /\ dom.loading ~> loading.hide
    /\ dom.loading ~> (loading.hide /\ loading.display = "none")
    /\ [](loading.display = "none" => loading.hide)
    /\ [](loadingTimers.t300 + loadingTimers.t500 <= 1)

\* C17: no setup step and no handler raises an error, and once init has run
\* the setup of each element the page holds has been done
C17_NothingRaises ==
    /\ uncaught = {}
    /\ isInitialized =>
          /\ listeners.theme <=> dom.themeToggle
          /\ listeners.submit <=> dom.contactForm
          /\ dom.loading => (loadingTimers.t300 > 0)
          /\ "init_complete" \in marks

\* C18: a fade-in element with opacity 1 keeps it in every later state and is
\* not watched any more, from the step that revealed it on
C18_RevealedStaysRevealed ==
    [][ \A e \in FadeEls :
          /\ opacity[e] = "1" => opacity'[e] = "1"
          /\ opacity'[e] = "1" => e \notin observed' ]_vars

\* C18 witness: one element was revealed and is no longer watched, the other
\* is still hidden and watched, and the page has been scrolled since
C18_RevealedThenScrolled ==
    /\ opacity["card"] = "1"
    /\ "card" \notin observed
    /\ opacity["step"] = "0"
    /\ "step" \in observed
    /\ lastEvent.name = "scroll"

\* C19: with the scroll listener registered and no frame pending, the
\* throttling flag is clear and the header has 'scrolled' exactly when the
\* scroll offset exceeds the threshold
C19_HeaderTracksScroll ==
    (listeners.scroll > 0 /\ frames = 0) =>
        /\ ~ticking
        /\ headerScrolled <=> IsScrolled(scrollY)

\* C20: at most one header update is pending after every step, and a scroll
\* event that arrives while one is pending requests no further frame
C20_OneUpdatePending ==
    [][ /\ frames' <= 1
        /\ (Scroll /\ frames > 0) => frames' = frames ]_vars

\* C20 witness: a scroll event arrived while an update was pending, and one
\* update is pending
C20_ScrolledWhilePending ==
    /\ lastEvent.name = "scroll"
    /\ lastEvent.result
    /\ listeners.scroll = 1
    /\ frames = 1

-----------------------------------------------------------------------------
(* Properties: inline errors of the fields, the control while sending *)

\* C21: in every state an input with the error border has an error message
\* displayed in its container, and a container displaying an error message
\* holds an input with the error border
C21_BorderIffMessage ==
    /\ \A i \in InputIds : border[i] => errorEl[inputs[i].parent] # NoError
    /\ \A c \in Containers :
          errorEl[c] # NoError => \E i \in InputIds : inputs[i].parent = c /\ border[i]

\* C22: whenever a submission is awaiting the relay, the submit control is
\* disabled and its label is 'Sending...'
C22_SendingWhileInFlight ==
    inflight # <<>> => (btnDisabled /\ btnText = SendingLabel)

=============================================================================
